---------------------------- MODULE Spec2Model ----------------------------
(***************************************************************************)
(* A model of the tailor-assessment-bot repository: the four programs it   *)
(* holds (whatsapp_app.py, main.py, agent.py and the ADK webhook of        *)
(* agents/master_agent.py), each as the state machine of its request       *)
(* handler.  One behaviour of the model is one deployed program (host)     *)
(* serving requests.                                                       *)
(*                                                                         *)
(* Strings that the code takes apart (From, MediaContentType0) are         *)
(* sequences of tokens, so that replace() and startswith() are computed;   *)
(* the calls to Gemini, Twilio and the file system are steps whose outcome *)
(* is chosen by the environment.                                           *)
(***************************************************************************)
EXTENDS Integers, Sequences, FiniteSets, TLC

VARIABLES
  host,      \* the program that is deployed
  pc,        \* the handler's position
  responded, \* whether the response of the request has been returned
  req,       \* the form fields of the request being handled
  phone,     \* phone_number, as the webhook computed it
  handler,   \* the message handler the webhook called
  fileOk,    \* test_stitch.jpg on disk: missing, a valid image or an invalid one
  plan,      \* plan['sub_agent_instructions']
  idx,       \* the loop position in the instructions
  results,   \* sub_agent_results
  verdict,   \* what get_final_verdict returned
  verdictArg,\* what get_final_verdict was called with
  exc,       \* the text of the exception being handled
  outbox,    \* the messages handed to Twilio, in order
  calls,     \* the downstream calls made for this request, in order
  caught,    \* the except clauses that caught an exception for this request
  sendRet,   \* what the last send_message returned
  files,     \* the temporary audio files of the message that are on disk
  paths,     \* ogg_file_path and wav_file_path of handle_voice_message
  analysis,  \* what analyze_stitching returned (agent.py)
  aliased,   \* ADK: whether get_session hands out the stored session object
             \* itself (TRUE) or a copy of it (FALSE); the library decides
  store,     \* ADK: the sessions kept by session_service, by key
  areq,      \* ADK: the requests being handled, one per server thread
  nreq       \* ADK: the number of requests received so far

vars == <<host, pc, responded, req, phone, handler, fileOk, plan, idx, results, verdict,
          verdictArg, exc, outbox, calls, caught, sendRet, files, paths, analysis,
          aliased, store, areq, nreq>>

(***************************************************************************)
(* Bounds and input sets                                                   *)
(***************************************************************************)
MaxInstr == 2

MaxRequests == 2

None == "None"

Hosts == {"whatsapp", "cli", "agent", "adk"}

Froms == { <<"whatsapp:", "+1555">>, <<"+1555">> }

NumMediaRaw == {"0", "1", "abc"}

MediaUrls == {"", "url"}

ContentTypes == { <<>>, <<"image/", "jpeg">>, <<"audio/", "ogg">>, <<"video/", "mp4">> }

ExcTexts == {"exc-A", "exc-B"}

AgentNames == {"StitchingAssessorAgent", "CookingAgent"}

Roles == {"Tailor", None}

\* role, image_path: the keys of the instruction's task_context; None for a
\* key the plan leaves out
Instructions == [agent_name : AgentNames, role : Roles, image_path : {None}]

\* the instructions of the command-line plans: also another role, and a
\* task_context that names an image file
CLIInstructions ==
  Instructions \cup
    { [agent_name |-> "StitchingAssessorAgent", role |-> "Cook", image_path |-> None],
      [agent_name |-> "StitchingAssessorAgent", role |-> "Tailor",
       image_path |-> "sample.jpg"] }

SeqsUpTo(S, n) == UNION { [1..k -> S] : k \in 0..n }

Plans == SeqsUpTo(Instructions, MaxInstr)

CLIPlans == SeqsUpTo(CLIInstructions, MaxInstr)

Verdicts == {"PASS", "FAIL", "REVIEW", None, "not-a-dict"}

\* the quality_rating values the model's JSON is taken from
RatingsFromModel == {0, 3, 9, 11}

\* the responses of the model that are no JSON, as tokens
FallbackTexts ==
  { <<"ok">>,
    <<"rating", ":", " ", "7">>,
    <<"rating", ":", "15">>,
    <<"rating", " ", "is", " ", "7">> }

\* \d+ and int(...)
IsNumber(tok) == tok \in {"7", "15"}

NumberOf(tok) == IF tok = "7" THEN 7 ELSE 15

\* re.search(r'rating[:\s]*(\d+)', response_text, re.IGNORECASE): the first
\* "rating" that is followed, over colons and whitespace only, by digits
RatingSearch(text) ==
  LET Matches == { m \in (1..Len(text)) \X (1..Len(text)) :
                     /\ m[1] < m[2]
                     /\ text[m[1]] = "rating"
                     /\ IsNumber(text[m[2]])
                     /\ \A k \in (m[1] + 1)..(m[2] - 1) : text[k] \in {":", " "} }
  IN IF Matches = {}
     THEN [found |-> FALSE, digits |-> 0]
     ELSE LET m == CHOOSE x \in Matches : \A y \in Matches : x[1] <= y[1]
          IN [found |-> TRUE, digits |-> NumberOf(text[m[2]])]

\* _parse_fallback_response(response_text)
ParseFallback(text) ==
  LET match  == RatingSearch(text)
      rating == IF match.found THEN match.digits ELSE 5
  IN [path |-> "fallback", cause |-> "no-json", keys |-> TRUE, rating |-> rating,
      numeric |-> TRUE, pass_fail |-> IF rating < 7 THEN "fail" ELSE "pass",
      text |-> text]

\* the dict analyze_stitching returns from its outer except clause
FailureDefault(cause) ==
  [path |-> "default", cause |-> cause, keys |-> TRUE, rating |-> 5,
   numeric |-> TRUE, pass_fail |-> "fail", text |-> <<>>]

\* what happens inside analyze_stitching: Image.open raises, the model call
\* raises, the response is JSON (it may lack keys, and its quality_rating may
\* be a number or a string), or the response is no JSON
ModelOutcomes ==
  [kind : {"json"}, keys : BOOLEAN, rating : RatingsFromModel, numeric : BOOLEAN,
   text : {<<>>}]
    \cup [kind : {"decode-error", "model-error"}, keys : {TRUE}, rating : {0},
          numeric : {TRUE}, text : {<<>>}]
    \cup [kind : {"no-json"}, keys : {TRUE}, rating : {0}, numeric : {TRUE},
          text : FallbackTexts]

\* GeminiStitchingExpert.analyze_stitching on an outcome: json.loads(...), the
\* fallback parse, or the failure default
AnalyzeStitching(o) ==
  CASE o.kind = "json" ->
         [path |-> "json", cause |-> "json", keys |-> o.keys, rating |-> o.rating,
          numeric |-> o.numeric, pass_fail |-> "pass", text |-> <<>>]
    [] o.kind = "no-json" -> ParseFallback(o.text)
    [] OTHER -> FailureDefault(o.kind)

\* what analyze_stitching can hand back
Analyses == { AnalyzeStitching(o) : o \in ModelOutcomes }

NoAnalysis == [path |-> None, cause |-> None, keys |-> TRUE, rating |-> 0,
               numeric |-> TRUE, pass_fail |-> None, text |-> <<>>]

NoBytes == [src |-> None, bytes |-> None]

\* a result of a sub-agent without the key 'data'
NoData == [quality_rating |-> 0, professional_grade |-> None, pass_fail_raw |-> None]

NoReq == [From |-> <<>>, Body |-> <<>>, NumMedia |-> "0", MediaUrl0 |-> "",
          MediaContentType0 |-> <<>>, image |-> None]

\* the requests each program can receive: form posts for the two webhooks, a
\* console line with an optional image for main.py
RequestsOf(h) ==
  CASE h = "whatsapp" ->
         \* image: the bytes behind MediaUrl0; the media fields are read only
         \* under NumMedia > 0, so they vary only there
         { r \in [From : Froms, Body : {<<"o", "k">>}, NumMedia : NumMediaRaw,
                  MediaUrl0 : MediaUrls, MediaContentType0 : ContentTypes,
                  image : {None, "valid"}] :
             /\ (r.image = None) <=> (r.MediaUrl0 = "")
             /\ r.NumMedia # "1" => (r.MediaUrl0 = "" /\ r.MediaContentType0 = <<>>) }
    [] h = "agent" ->
         [From : Froms, Body : {<<>>, <<"H", "i">>, <<"o", "k">>, <<"t", "h", "i", "s">>},
          NumMedia : NumMediaRaw, MediaUrl0 : MediaUrls,
          MediaContentType0 : {<<>>, <<"image/", "jpeg">>}, image : {None}]
    [] OTHER ->
         [From : {<<>>}, Body : {<<"o", "k">>}, NumMedia : {"0"}, MediaUrl0 : {""},
          MediaContentType0 : {<<>>}, image : {None, "empty", "valid", "invalid"}]

(***************************************************************************)
(* String helpers                                                          *)
(***************************************************************************)
\* int(s): the value, or a ValueError
ParseInt(s) ==
  CASE s = "0" -> [ok |-> TRUE, val |-> 0]
    [] s = "1" -> [ok |-> TRUE, val |-> 1]
    [] s = "2" -> [ok |-> TRUE, val |-> 2]
    [] OTHER   -> [ok |-> FALSE, val |-> 0]

\* s.startswith(p), p one token
StartsWith(s, p) == Len(s) > 0 /\ s[1] = p

\* s.replace('whatsapp:', '')
StripPrefix(s) == SelectSeq(s, LAMBDA t : t # "whatsapp:")

\* a recipient passed on as it came
AsGiven(to) == to

\* the `to` that send_message hands to Twilio
WithPrefix(to) == IF StartsWith(to, "whatsapp:") THEN to ELSE <<"whatsapp:">> \o to

\* str.lower(), one character
LowerChar(c) ==
  CASE c = "H" -> "h" [] c = "I" -> "i" [] c = "E" -> "e" [] c = "L" -> "l"
    [] c = "P" -> "p" [] c = "O" -> "o" [] c = "S" -> "s" [] c = "T" -> "t"
    [] c = "A" -> "a" [] c = "R" -> "r" [] OTHER -> c

Lower(s) == [k \in 1..Len(s) |-> LowerChar(s[k])]

\* p in s, for strings as sequences of characters
IsSubstring(p, s) ==
  \E k \in 0..(Len(s) - Len(p)) : \A j \in 1..Len(p) : s[k + j] = p[j]

Greetings == { <<"h", "i">>, <<"h", "e", "l", "l", "o">>, <<"s", "t", "a", "r", "t">>,
               <<"h", "e", "l", "p">> }

\* a test for texts that are a greeting word and nothing else
IsGreetingWord(text) == Lower(text) \in Greetings

\* handle_text_message's test (agent.py)
IsGreeting(text) == \E g \in Greetings : IsSubstring(g, Lower(text))

(***************************************************************************)
(* TwilioWhatsAppAPI.send_message: the Twilio create call succeeds (ok) or *)
(* raises; either way send_message returns a bool and raises nothing.      *)
(***************************************************************************)
\* a send_message without its except clause: the Twilio exception escapes
send_message_unguarded(to, ok) ==
  [ret |-> ok, raised |-> ~ok, to |-> WithPrefix(to)]

send_message(to, ok) ==
  [ret |-> ok, raised |-> FALSE, to |-> WithPrefix(to)]

(***************************************************************************)
(* The handlers' positions (whatsapp_app.py: txt_, voice_, img_, sub_,     *)
(* res_, unsup_; agent.py: ag_; main.py: cli_)                             *)
(***************************************************************************)
\* the webhooks' test for media
MediaPresent(r) == ParseInt(r.NumMedia).val > 0 /\ r.MediaUrl0 # ""

\* whatsapp_app.py handle_twilio_webhook's choice of action; "none" when
\* int() raised
Route(r) ==
  IF ~ParseInt(r.NumMedia).ok THEN "none"
  ELSE IF MediaPresent(r)
       THEN IF StartsWith(r.MediaContentType0, "image/") THEN "image"
            ELSE IF StartsWith(r.MediaContentType0, "audio/") THEN "voice"
            ELSE "unsupported"
       ELSE "text"

\* agent.py handle_twilio_webhook's choice of action
AgentRoute(r) ==
  IF ~ParseInt(r.NumMedia).ok THEN "none"
  ELSE IF MediaPresent(r) THEN "ag_image" ELSE "ag_text"

\* the first step of each action
EntryOf(h) ==
  CASE h = "image"       -> "img_send_dl"
    [] h = "voice"       -> "voice_send_proc"
    [] h = "unsupported" -> "unsup_send"
    [] h = "text"        -> "txt_plan"
    [] h = "ag_image"    -> "ag_send_ack"
    [] h = "ag_text"     -> "ag_send_text"
    [] OTHER             -> "respond"

\* the positions at which send_message is called
SendLocs ==
  {"unsup_send", "txt_send_resp", "txt_send_err",
   "voice_send_proc", "voice_send_analyze", "voice_send_resp", "voice_send_err",
   "img_send_dl", "img_send_dlfail", "img_send_analyze", "img_send_resp",
   "img_send_err",
   "sub_send_start", "sub_send_agent", "sub_send_final", "sub_send_err",
   "res_send_final", "res_send_detail", "res_send_result", "res_send_fmt_err",
   "ag_send_text", "ag_send_ack", "ag_send_dlfail", "ag_send_report",
   "ag_send_encourage", "ag_send_err"}

\* the sends whose text interpolates str(e)
ExcTextLocs == {"voice_send_err", "img_send_err", "sub_send_err", "ag_send_err"}

\* the sends made by an except clause
ErrorLocs == {"txt_send_err", "voice_send_err", "img_send_err", "sub_send_err",
              "res_send_fmt_err", "ag_send_err"}

\* where the webhook continues once the message handler has returned
AfterHandler == IF handler = "voice" THEN "voice_cleanup" ELSE "respond"

\* the except clause that catches an exception raised at loc: its name
Catcher(loc) ==
  CASE loc \in {"txt_plan", "txt_send_resp"} -> "text"
    [] loc \in {"voice_send_proc", "voice_download", "voice_convert",
                "voice_send_analyze", "voice_plan", "voice_send_resp"} -> "voice"
    [] loc \in {"img_send_dl", "img_download", "img_send_dlfail",
                "img_send_analyze", "img_plan", "img_send_resp"} -> "image"
    [] loc \in {"sub_send_start", "sub_send_agent", "sub_exec", "sub_send_final",
                "sub_verdict"} -> "sub"
    [] loc \in {"res_send_final", "res_send_result"} -> "results"
    [] loc = "res_send_detail" -> "detail"
    [] loc = "res_send_fmt_err" -> "sub"
    [] loc = "sub_send_err" -> handler
    [] loc \in {"ag_send_ack", "ag_download", "ag_send_dlfail", "ag_analyze",
                "ag_send_report", "ag_compare", "ag_send_encourage"} -> "ag_image"
    [] loc \in {"cli_plan", "cli_exec", "cli_verdict"} -> "main"
    [] OTHER -> "webhook"

\* except clauses of which the text handler's calls get_plan again
ExceptEntryRetrying(site) ==
  CASE site = "text"     -> "txt_plan"
    [] site = "voice"    -> "voice_send_err"
    [] site = "image"    -> "img_send_err"
    [] site = "sub"      -> "sub_send_err"
    [] site = "results"  -> "res_send_fmt_err"
    [] site = "detail"   -> "res_send_result"
    [] site = "ag_image" -> "ag_send_err"
    [] OTHER             -> "respond"

\* where an except clause continues
ExceptEntry(site) ==
  CASE site = "text"     -> "txt_send_err"
    [] site = "voice"    -> "voice_send_err"
    [] site = "image"    -> "img_send_err"
    [] site = "sub"      -> "sub_send_err"
    [] site = "results"  -> "res_send_fmt_err"
    [] site = "detail"   -> "res_send_result"
    [] site = "ag_image" -> "ag_send_err"
    [] OTHER             -> "respond"

\* an exception raised at loc: the finally clause of handle_voice_message runs
\* before the webhook's except clause
ExceptOf(loc) ==
  IF loc = "voice_send_err" THEN "voice_cleanup" ELSE ExceptEntry(Catcher(loc))

\* a test that lets only plans of several instructions through
HasSeveralInstructions(p) == Len(p) > 1

\* `if instructions:` (whatsapp_app.py), `if not instructions: return` (main.py)
HasInstructions(p) == p # <<>>

\* the position after a send at loc that returned
NextOf(loc) ==
  CASE loc \in {"txt_send_resp", "img_send_resp", "voice_send_resp"} ->
         IF HasInstructions(plan) THEN "sub_send_start" ELSE AfterHandler
    [] loc = "voice_send_proc"    -> "voice_download"
    [] loc = "voice_send_analyze" -> "voice_plan"
    [] loc = "voice_send_err"     -> "voice_cleanup"
    [] loc = "img_send_dl"        -> "img_download"
    [] loc = "img_send_analyze"   -> "img_plan"
    [] loc = "sub_send_start"     -> "sub_send_agent"
    [] loc = "sub_send_agent"     -> "sub_exec"
    [] loc = "sub_send_final"     -> "sub_verdict"
    [] loc = "res_send_final"     ->
         IF results # <<>> /\ results[1].result.data # NoData
         THEN "res_send_detail" ELSE "res_send_result"
    [] loc = "res_send_detail"    -> "res_send_result"
    [] loc \in {"sub_send_err", "res_send_result", "res_send_fmt_err"} -> AfterHandler
    [] loc = "ag_send_ack"        -> "ag_download"
    [] loc = "ag_send_report"     -> "ag_compare"
    [] OTHER -> "respond"

\* the handler's position after send_message(...) returned r (or raised)
AfterSend(loc, r) == IF r.raised THEN ExceptOf(loc) ELSE NextOf(loc)

\* which message a send at loc is
MsgKind(loc) ==
  IF loc = "ag_send_text"
  THEN IF IsGreeting(req.Body) THEN "ag_welcome" ELSE "ag_photo_request"
  ELSE loc

\* the band emoji of send_assessment_report (agent.py): the lookup in the
\* ranges 1-2, 3-4, 5-6, 7-8, 9-10, with the default
EmojiByRange(rating) ==
  CASE rating \in 1..2  -> "red"
    [] rating \in 3..4  -> "orange"
    [] rating \in 5..6  -> "yellow"
    [] rating \in 7..8  -> "green"
    [] rating \in 9..10 -> "trophy"
    [] OTHER            -> "yellow"

\* the band emoji of _send_detailed_assessment (whatsapp_app.py): the chain of
\* thresholds
EmojiByThreshold(rating) ==
  IF rating < 3 THEN "red"
  ELSE IF rating < 5 THEN "orange"
  ELSE IF rating < 7 THEN "yellow"
  ELSE IF rating < 9 THEN "green"
  ELSE "trophy"

\* the emoji of the report for an analysis: a quality_rating that is a string
\* is in no range
ReportEmoji(a) == IF a.numeric THEN EmojiByRange(a.rating) ELSE "yellow"

\* the message a send at loc hands to Twilio: its recipient, which text it is,
\* the exception text and the rating and band emoji it shows (rating: a
\* sequence of one number, empty for a message without rating)
\* decision_data.get('decision', 'UNKNOWN') of a verdict
DecisionOf(v) == IF v = None THEN "UNKNOWN" ELSE v

\* a decision emoji that knows only the check mark
DecisionEmojiPassOnly(decision) ==
  IF decision = "PASS" THEN "check" ELSE "hourglass"

\* decision_emoji of _send_agent_results
DecisionEmoji(decision) ==
  IF decision = "PASS" THEN "check"
  ELSE IF decision = "FAIL" THEN "cross"
  ELSE "hourglass"

\* detail: the exception text of an error message, the decision of the Final
\* Result message
Message(loc, to) ==
  [to |-> to, kind |-> MsgKind(loc),
   detail |-> CASE loc \in ExcTextLocs     -> exc
                [] loc = "res_send_result" -> DecisionOf(verdict)
                [] OTHER                   -> None,
   rating |-> CASE loc = "ag_send_report"  -> <<analysis.rating>>
                [] loc = "res_send_detail" -> <<results[1].result.data.quality_rating>>
                [] OTHER                   -> <<>>,
   emoji  |-> CASE loc = "ag_send_report"  -> ReportEmoji(analysis)
                [] loc = "res_send_detail" ->
                     EmojiByThreshold(results[1].result.data.quality_rating)
                [] loc = "res_send_result" -> DecisionEmoji(DecisionOf(verdict))
                [] OTHER                   -> None]

\* a collection that puts the newest result first
CollectFirst(rs, name, r) == <<[agent_name |-> name, result |-> r]>> \o rs

\* sub_agent_results.append({"agent_name": ..., "result": ...})
Collect(rs, name, r) == Append(rs, [agent_name |-> name, result |-> r])

\* a task context without the key 'role'
Absent == "absent"

\* the task contexts execute is studied on: with and without image_path, the
\* role "Tailor", another role, no role
TaskContexts == [image_path : {None, "sample.jpg"}, role : {"Tailor", "Cook", Absent}]

\* the image data execute is studied on: None, b"", bytes that PIL rejects,
\* bytes of an image
ImageData == {None, "empty", "invalid", "valid"}

\* instruction.get('task_context', {}) of an instruction of the plan
ContextOf(instr) ==
  [image_path |-> instr.image_path,
   role |-> IF instr.role = None THEN Absent ELSE instr.role]

\* `if image_data:` and `not image_data or len(image_data) == 0`
HasBytes(bytes) == bytes \notin {None, "empty"}

\* validate_image_data(image_data)["valid"]
ValidImage(bytes) == HasBytes(bytes) /\ bytes = "valid"

\* task_context.get('role', 'Tailor')
RoleOrTailor(ctx) == IF ctx.role = Absent THEN "Tailor" ELSE ctx.role

\* _simulate_enhanced_assessment(task_context, image_path)
SimulateEnhanced(ctx) ==
  [quality_rating |-> 7,
   professional_grade |-> IF RoleOrTailor(ctx) = "Tailor" THEN "Advanced"
                          ELSE "Intermediate",
   pass_fail_raw |-> IF RoleOrTailor(ctx) = "Tailor" THEN "Pass" ELSE "Fail"]

\* _simulate_basic_assessment(task_context)
SimulateBasic(ctx) ==
  [quality_rating |-> 6,
   professional_grade |-> "Intermediate",
   pass_fail_raw |-> IF RoleOrTailor(ctx) = "Tailor" THEN "Pass" ELSE "Fail"]

\* the try block of StitchingAssessorAgent.execute: the assessment, or the
\* exception it raises
ExecuteBody(bytes, ctx) ==
  IF ctx.image_path # None
  THEN [raised |-> FALSE, exc |-> None, data |-> SimulateEnhanced(ctx)]
  ELSE IF ~HasBytes(bytes)
       THEN [raised |-> TRUE, exc |-> "No image data provided", data |-> NoData]
       ELSE IF ~ValidImage(bytes)
            THEN [raised |-> TRUE, exc |-> "Invalid image", data |-> NoData]
            ELSE [raised |-> FALSE, exc |-> None, data |-> SimulateBasic(ctx)]

\* an execute without its except clause
StitchingExecuteUnguarded(bytes, ctx) ==
  LET b == ExecuteBody(bytes, ctx)
  IN IF b.raised
     THEN [status |-> "raised", message |-> b.exc, data |-> NoData]
     ELSE [status |-> "success", message |-> None, data |-> b.data]

\* StitchingAssessorAgent.execute(image_data, task_context): a result has the
\* keys status and data (success) or status and message (error); the key it
\* lacks is None / NoData here
StitchingExecute(bytes, ctx) ==
  LET b == ExecuteBody(bytes, ctx)
  IN IF b.raised
     THEN [status |-> "error", message |-> b.exc, data |-> NoData]
     ELSE [status |-> "success", message |-> None, data |-> b.data]

\* the result of execute on each image data and task context
ExecuteResults ==
  [b \in ImageData, c \in TaskContexts |-> StitchingExecute(b, c)]

\* the image bytes that execute_sub_agent_instruction hands to
\* sub_agent.execute, and where they come from; NoBytes when no sub-agent is
\* executed
SubAgentInput(instr, image_data) ==
  IF instr.agent_name # "StitchingAssessorAgent"
  THEN NoBytes
  ELSE IF HasBytes(image_data)
       THEN [src |-> "image_data", bytes |-> image_data]
       ELSE IF fileOk = "missing"
            THEN NoBytes
            ELSE [src |-> "test_stitch.jpg", bytes |-> fileOk]

\* an execute_sub_agent_instruction that does not look the agent up
ExecuteSubAgentAnyName(instr, image_data) ==
  IF HasBytes(image_data)
  THEN StitchingExecute(image_data, ContextOf(instr))
  ELSE IF fileOk = "missing"
       THEN [status |-> "error", message |-> "Image file not found", data |-> NoData]
       ELSE StitchingExecute(fileOk, ContextOf(instr))

\* Application.execute_sub_agent_instruction(instruction, image_data)
ExecuteSubAgent(instr, image_data) ==
  IF instr.agent_name # "StitchingAssessorAgent"
  THEN [status |-> "error", message |-> "Sub-agent not found.", data |-> NoData]
  ELSE IF HasBytes(image_data)
       THEN StitchingExecute(image_data, ContextOf(instr))
       ELSE IF fileOk = "missing"
            THEN [status |-> "error", message |-> "Image file not found",
                  data |-> NoData]
            ELSE StitchingExecute(fileOk, ContextOf(instr))

(***************************************************************************)
(* agents/master_agent.py: the ADK webhook.  A text is its source, the     *)
(* exception text it carries, the number of characters kept of the source  *)
(* and whether "..." follows.                                              *)
(***************************************************************************)
WhatsAppLimit == 1600

TruncateAt == 1597

Threads == {"t1", "t2"}

\* the server hands a request to the first idle thread
ThreadOrder == [t \in Threads |-> IF t = "t1" THEN 1 ELSE 2]

Senders == { <<"whatsapp", ":", "+", "1">>, <<"whatsapp", "_", "1">> }

ADKExcTexts == {"exc-A"}

\* what the model answers: the length of response.text and its words
ModelResponses ==
  { [len |-> 1600, words |-> <<"o", "k">>],
    [len |-> 1518, words |-> <<"T", "a", "i", "l", "o", "r">>] }

\* stitching_keywords
StitchingKeywords ==
  { <<"s", "t", "i", "t", "c", "h">>, <<"s", "e", "w", "i", "n", "g">>,
    <<"t", "a", "i", "l", "o", "r">>, <<"f", "a", "b", "r", "i", "c">>,
    <<"t", "h", "r", "e", "a", "d">>, <<"n", "e", "e", "d", "l", "e">>,
    <<"s", "e", "a", "m">> }

\* _should_delegate_to_stitching_agent(text)
ShouldDelegate(text) == \E k \in StitchingKeywords : IsSubstring(k, Lower(text))

\* the sub-agents that _process_input_with_master_prompt runs for a response:
\* both branches of its delegation test only build final_response
SubAgentsRun(text) == IF ShouldDelegate(text) THEN {} ELSE {}

\* len("\n\nFor detailed stitching skill evaluation, please also share an
\* image of your work.")
HintLen == 83

\* the media content types that are audio types
AudioTypes == {"audio/ogg"}

\* the form posts the webhook is sent: MediaUrl0, MediaContentType0, Body
ADKInputs ==
  { [url |-> None,  type |-> None,         body |-> ""],
    [url |-> None,  type |-> None,         body |-> "hi"],
    [url |-> "url", type |-> "audio/ogg",  body |-> ""],
    [url |-> "url", type |-> "image/jpeg", body |-> "hi"] }

Min(a, b) == IF a < b THEN a ELSE b

ModelText(n) == [src |-> "model", exc |-> None, take |-> n, dots |-> FALSE]

\* ctx.session.state[f"{input_type}_response"] = response.text: the text as it
\* is kept in the session state, its length left out (nothing reads it back)
Stored(t) == [t EXCEPT !.take = 0]

\* final_response: the response followed by the request for an image when the
\* delegation test holds
FinalResponse(t, words) ==
  IF ShouldDelegate(words)
  THEN [t EXCEPT !.src = "model+hint", !.take = @ + HintLen]
  ELSE t

\* _create_error_event(f"Error processing input: {str(e)}")
ErrorText(e) == [src |-> "agent-error", exc |-> e, take |-> 30, dots |-> FALSE]

ApologyText == [src |-> "apology", exc |-> None, take |-> 71, dots |-> FALSE]

GreetingText == [src |-> "greeting", exc |-> None, take |-> 114, dots |-> FALSE]

NoText == [src |-> None, exc |-> None, take |-> 0, dots |-> FALSE]

\* len(result)
TextLen(t) == t.take + (IF t.dots THEN 3 ELSE 0)

\* a truncation that keeps 1600 characters before the "..."
TruncateKeepingLimit(t) ==
  IF TextLen(t) > WhatsAppLimit
  THEN [t EXCEPT !.take = Min(WhatsAppLimit, t.take), !.dots = TRUE]
  ELSE t

\* the truncation of twilio_webhook: result[:1597] + "..." past 1600 characters
Truncate(t) ==
  IF TextLen(t) > WhatsAppLimit
  THEN [t EXCEPT !.take = Min(TruncateAt, t.take), !.dots = TRUE]
  ELSE t

\* session_id = f"twilio_{sender_number.replace(':', '_').replace('+', '')}"
SessionId(sender) ==
  <<"twilio_">> \o [k \in 1..Len(SelectSeq(sender, LAMBDA c : c # "+")) |->
                      LET c == SelectSeq(sender, LAMBDA d : d # "+")[k]
                      IN IF c = ":" THEN "_" ELSE c]

\* a session store that looks sessions up by session_id alone
SessionKeyById(sender) == <<<<>>, SessionId(sender)>>

\* the key under which session_service keeps a session: user_id, session_id
SessionKey(sender) == <<sender, SessionId(sender)>>

SessionKeys == { SessionKey(s) : s \in Senders }

NoContent == [n |-> 0, sender |-> <<>>, type |-> None]

NoSession == [exists |-> FALSE, input_content |-> NoContent, input_type |-> None,
              response |-> NoText, complete |-> FALSE, by |-> {}]

\* create_session(..., state={"conversation_history": []}) by request w
FreshSession(w) == [NoSession EXCEPT !.exists = TRUE, !.by = {w}]

IdleThread == [pc |-> "a_idle", n |-> 0, sender |-> <<>>,
               in |-> [url |-> None, type |-> None, body |-> ""],
               content |-> NoContent, seen |-> NoContent,
               result |-> NoText, reply |-> NoText, caught |-> FALSE,
               readable |-> {}, invoked |-> {}]

Init ==
  /\ host \in Hosts
  /\ pc = "idle"
  /\ responded = FALSE
  /\ req = NoReq
  /\ phone = <<>>
  /\ handler = None
  /\ fileOk \in {"missing", "valid", "invalid"}
  /\ plan = <<>>
  /\ idx = 1
  /\ results = <<>>
  /\ verdict = None
  /\ verdictArg = <<>>
  /\ exc = None
  /\ outbox = <<>>
  /\ calls = <<>>
  /\ caught = {}
  /\ sendRet = TRUE
  /\ files = {}
  /\ paths = [ogg |-> None, wav |-> None]
  /\ analysis = NoAnalysis
  /\ aliased \in (IF host = "adk" THEN BOOLEAN ELSE {FALSE})
  /\ store = [k \in SessionKeys |-> NoSession]
  /\ areq = [t \in Threads |-> IdleThread]
  /\ nreq = 0

adkVars == <<aliased, store, areq, nreq>>

hostVars == <<host, pc, responded, req, phone, handler, fileOk, plan, idx, results, verdict,
              verdictArg, exc, outbox, calls, caught, sendRet, files, paths,
              analysis>>

\* a request arrives
Receive ==
  /\ host # "adk"
  /\ pc = "idle"
  /\ req' \in RequestsOf(host)
  /\ pc' = IF host = "cli" THEN "cli_plan" ELSE "parse"
  /\ UNCHANGED <<host, responded, phone, handler, fileOk, plan, idx, results, verdict,
                 verdictArg, exc, outbox, calls, caught, sendRet, files, paths,
                 analysis,
                 adkVars>>

\* a webhook that returns its response while the handler is still at a send
RespondEarly ==
  /\ pc \in SendLocs
  /\ ~responded
  /\ responded' = TRUE
  /\ UNCHANGED <<host, pc, req, phone, handler, fileOk, plan, idx, results, verdict,
                 verdictArg, exc, outbox, calls, caught, sendRet, files, paths,
                 analysis,
                 adkVars>>

\* the handler's response has been returned (for main.py: the prompt is shown
\* again)
Respond ==
  /\ pc = "respond"
  /\ pc' = "responded"
  /\ responded' = TRUE
  /\ UNCHANGED <<host, req, phone, handler, fileOk, plan, idx, results, verdict,
                 verdictArg, exc, outbox, calls, caught, sendRet, files, paths,
                 analysis,
                 adkVars>>

\* the locals of the request go out of scope, and the model stops following
\* the temporary files of the message (their names are never used again)
Return ==
  /\ pc = "responded"
  /\ pc' = "idle"
  /\ responded' = FALSE
  /\ req' = NoReq
  /\ phone' = <<>>
  /\ handler' = None
  /\ plan' = <<>>
  /\ idx' = 1
  /\ results' = <<>>
  /\ verdict' = None
  /\ verdictArg' = <<>>
  /\ exc' = None
  /\ outbox' = <<>>
  /\ calls' = <<>>
  /\ caught' = {}
  /\ sendRet' = TRUE
  /\ paths' = [ogg |-> None, wav |-> None]
  /\ analysis' = NoAnalysis
  /\ files' = {}
  /\ UNCHANGED <<host, fileOk,
                 adkVars>>

\* an exception with text e is raised at pc and caught
Raise(e) ==
  /\ pc' = ExceptOf(pc)
  /\ exc' = e
  /\ caught' = caught \cup {Catcher(pc)}

NoRaise == UNCHANGED <<exc, caught>>

Logged(op, i) == calls' = Append(calls, [op |-> op, i |-> i, arg |-> NoBytes])

\* a sub-agent execution, logged with the bytes it was handed
LoggedExec(i, bytes) == calls' = Append(calls, [op |-> "exec", i |-> i, arg |-> bytes])

\* handle_twilio_webhook of whatsapp_app.py and of agent.py, up to the call of
\* the message handler
Webhook ==
  /\ host \in {"whatsapp", "agent"} /\ pc = "parse"
  /\ LET h == IF host = "whatsapp" THEN Route(req) ELSE AgentRoute(req) IN
       /\ handler' = h
       /\ IF h = "none"
          THEN /\ pc' = "respond"
               /\ caught' = caught \cup {"webhook"}
               /\ UNCHANGED phone
          ELSE /\ pc' = EntryOf(h)
               /\ phone' = StripPrefix(req.From)
               /\ UNCHANGED caught
  /\ UNCHANGED <<host, responded, req, fileOk, plan, idx, results, verdict, verdictArg, exc,
                 outbox, calls, sendRet, files, paths, analysis,
                 adkVars>>

\* self.send_message(phone_number, ...) at any of the handlers' sends
Send ==
  /\ pc \in SendLocs
  /\ \E ok \in BOOLEAN :
       LET r == send_message(phone, ok) IN
         /\ outbox' = Append(outbox, Message(pc, r.to))
         /\ sendRet' = r.ret
         /\ pc' = AfterSend(pc, r)
         /\ IF r.raised
            THEN caught' = caught \cup {Catcher(pc)} /\ exc' = "send failed"
            ELSE NoRaise
  /\ UNCHANGED <<host, responded, req, phone, handler, fileOk, plan, idx, results, verdict,
                 verdictArg, calls, files, paths, analysis,
                 adkVars>>

(***************************************************************************)
(* whatsapp_app.py                                                         *)
(***************************************************************************)
\* master_agent.get_plan(...) in the text, voice and image handlers
WAGetPlan ==
  /\ pc \in {"txt_plan", "voice_plan", "img_plan"}
  /\ Logged("get_plan", 0)
  /\ \/ /\ plan' \in Plans
        /\ pc' = CASE pc = "txt_plan"   -> "txt_send_resp"
                   [] pc = "voice_plan" -> "voice_send_resp"
                   [] OTHER             -> "img_send_resp"
        /\ NoRaise
     \/ /\ \E e \in ExcTexts : Raise(e)
        /\ UNCHANGED plan
  /\ UNCHANGED <<host, responded, req, phone, handler, fileOk, idx, results, verdict,
                 verdictArg, outbox, sendRet, files, paths, analysis,
                 adkVars>>

\* requests.get(media_url) in handle_image_message (whatsapp_app.py) and in
\* handle_twilio_image_message (agent.py)
ImageDownload ==
  /\ pc \in {"img_download", "ag_download"}
  /\ Logged("download", 0)
  /\ \/ /\ pc' = IF pc = "img_download" THEN "img_send_analyze" ELSE "ag_analyze"
        /\ NoRaise
     \/ /\ pc' = IF pc = "img_download" THEN "img_send_dlfail" ELSE "ag_send_dlfail"
        /\ NoRaise
     \/ \E e \in ExcTexts : Raise(e)
  /\ UNCHANGED <<host, responded, req, phone, handler, fileOk, plan, idx, results, verdict,
                 verdictArg, outbox, sendRet, files, paths, analysis,
                 adkVars>>

\* AudioProcessor.download_audio_from_twilio: it returns the path of the file
\* it wrote, or raises before the temporary file is created (requests.get,
\* the status test), or raises after it (write, close)
WAVoiceDownload ==
  /\ pc = "voice_download"
  /\ Logged("download", 0)
  /\ \/ /\ pc' = "voice_convert"
        /\ files' = files \cup {"ogg"}
        /\ paths' = [paths EXCEPT !.ogg = "ogg"]
        /\ NoRaise
     \/ /\ \E e \in ExcTexts : Raise(e)
        /\ UNCHANGED <<files, paths>>
     \/ /\ \E e \in ExcTexts : Raise(e)
        /\ files' = files \cup {"ogg"}
        /\ UNCHANGED paths
  /\ UNCHANGED <<host, responded, req, phone, handler, fileOk, plan, idx, results, verdict,
                 verdictArg, outbox, sendRet, analysis,
                 adkVars>>

\* AudioProcessor.convert_ogg_to_wav: it returns the path of the file it
\* exported, or raises before the export opens that file (from_ogg), or raises
\* during the export
WAVoiceConvert ==
  /\ pc = "voice_convert"
  /\ Logged("convert", 0)
  /\ \/ /\ pc' = "voice_send_analyze"
        /\ files' = files \cup {"wav"}
        /\ paths' = [paths EXCEPT !.wav = "wav"]
        /\ NoRaise
     \/ /\ \E e \in ExcTexts : Raise(e)
        /\ UNCHANGED <<files, paths>>
     \/ /\ \E e \in ExcTexts : Raise(e)
        /\ files' = files \cup {"wav"}
        /\ UNCHANGED paths
  /\ UNCHANGED <<host, responded, req, phone, handler, fileOk, plan, idx, results, verdict,
                 verdictArg, outbox, sendRet, analysis,
                 adkVars>>

\* the finally clause of handle_voice_message: cleanup_temp_files unlinks the
\* files at the two paths that exist; an unlink that raises OSError is logged
\* and leaves its file (kept)
WAVoiceCleanup ==
  /\ pc = "voice_cleanup"
  /\ \E kept \in SUBSET ({paths.ogg, paths.wav} \cap files) :
       files' = files \ ({paths.ogg, paths.wav} \ kept)
  /\ pc' = "respond"
  /\ UNCHANGED <<host, responded, req, phone, handler, fileOk, plan, idx, results, verdict,
                 verdictArg, exc, outbox, calls, caught, sendRet, paths, analysis,
                 adkVars>>

\* one turn of the loop of _execute_sub_agents_and_respond, after its send
WAExec ==
  /\ pc = "sub_exec"
  /\ LoggedExec(idx, SubAgentInput(plan[idx], None))
  /\ results' = Collect(results, plan[idx].agent_name,
                       ExecuteSubAgent(plan[idx], None))
  /\ idx' = idx + 1
  /\ pc' = IF idx < Len(plan) THEN "sub_send_agent" ELSE "sub_send_final"
  /\ UNCHANGED <<host, responded, req, phone, handler, fileOk, plan, verdict, verdictArg, exc,
                 outbox, caught, sendRet, files, paths, analysis,
                 adkVars>>

\* master_agent.get_final_verdict(target_role, sub_agent_results) and the
\* first line of _send_agent_results
WAVerdict ==
  /\ pc = "sub_verdict"
  /\ Logged("verdict", 0)
  /\ verdictArg' = <<[role |-> IF plan[1].role = None THEN "Unknown" ELSE plan[1].role,
                      results |-> results]>>
  /\ \/ \E v \in Verdicts :
          /\ verdict' = v
          /\ IF v = "not-a-dict"
             THEN /\ pc' = ExceptOf("res_send_final")
                  /\ caught' = caught \cup {Catcher("res_send_final")}
                  /\ exc' = "AttributeError"
             ELSE pc' = "res_send_final" /\ NoRaise
     \/ /\ \E e \in ExcTexts : Raise(e)
        /\ UNCHANGED verdict
  /\ UNCHANGED <<host, responded, req, phone, handler, fileOk, plan, idx, results, outbox,
                 sendRet, files, paths, analysis,
                 adkVars>>

(***************************************************************************)
(* main.py: Application.run_full_assessment, called from the console loop  *)
(***************************************************************************)
\* STEP 1: master_agent.get_plan, and the return when there are no
\* instructions
CLIGetPlan ==
  /\ pc = "cli_plan"
  /\ Logged("get_plan", 0)
  /\ \/ /\ plan' \in CLIPlans
        /\ pc' = IF HasInstructions(plan') THEN "cli_exec" ELSE "respond"
        /\ NoRaise
     \/ /\ \E e \in ExcTexts : Raise(e)
        /\ UNCHANGED plan
  /\ UNCHANGED <<host, responded, req, phone, handler, fileOk, idx, results, verdict,
                 verdictArg, outbox, sendRet, files, paths, analysis,
                 adkVars>>

\* STEP 2: one turn of the loop over the instructions
CLIExec ==
  /\ pc = "cli_exec"
  /\ LoggedExec(idx, SubAgentInput(plan[idx], req.image))
  /\ results' = Collect(results, plan[idx].agent_name,
                       ExecuteSubAgent(plan[idx], req.image))
  /\ idx' = idx + 1
  /\ pc' = IF idx < Len(plan) THEN "cli_exec" ELSE "cli_verdict"
  /\ UNCHANGED <<host, responded, req, phone, handler, fileOk, plan, verdict, verdictArg, exc,
                 outbox, caught, sendRet, files, paths, analysis,
                 adkVars>>

\* STEP 3: the role of the first instruction, then get_final_verdict; STEP 4
\* prints the decision
CLIVerdict ==
  /\ pc = "cli_verdict"
  /\ IF plan[1].role = None
     THEN /\ pc' = "respond"
          /\ UNCHANGED <<calls, verdict, verdictArg, exc, caught>>
     ELSE /\ Logged("verdict", 0)
          /\ verdictArg' = <<[role |-> plan[1].role, results |-> results]>>
          /\ \/ \E v \in Verdicts :
                  /\ verdict' = v
                  /\ IF v = "not-a-dict"
                     THEN Raise("AttributeError")
                     ELSE pc' = "respond" /\ NoRaise
             \/ /\ \E e \in ExcTexts : Raise(e)
                /\ UNCHANGED verdict
  /\ UNCHANGED <<host, responded, req, phone, handler, fileOk, plan, idx, results, outbox,
                 sendRet, files, paths, analysis,
                 adkVars>>

(***************************************************************************)
(* agent.py                                                                *)
(***************************************************************************)
\* gemini_expert.analyze_stitching(image_bytes), then the construction of the
\* StitchingAssessment from its keys
AGAnalyze ==
  /\ pc = "ag_analyze"
  /\ Logged("analyze", 0)
  /\ \E a \in Analyses :
       /\ analysis' = a
       /\ IF a.keys
          THEN pc' = "ag_send_report" /\ NoRaise
          ELSE Raise("KeyError")
  /\ UNCHANGED <<host, responded, req, phone, handler, fileOk, plan, idx, results, verdict,
                 verdictArg, outbox, sendRet, files, paths,
                 adkVars>>

\* send_assessment_report after the report: quality_rating >= 8, which raises
\* a TypeError for a rating that is no number
AGCompare ==
  /\ pc = "ag_compare"
  /\ IF analysis.numeric
     THEN pc' = "ag_send_encourage" /\ NoRaise
     ELSE Raise("TypeError")
  /\ UNCHANGED <<host, responded, req, phone, handler, fileOk, plan, idx, results, verdict,
                 verdictArg, outbox, calls, sendRet, files, paths, analysis,
                 adkVars>>

(***************************************************************************)
(* agents/master_agent.py: twilio_webhook, one thread per request          *)
(***************************************************************************)
\* the request of thread t, as the writer of session state
Writer(t) == [n |-> areq[t].n, sender |-> areq[t].sender]

\* a request arrives at thread t, and get_or_create_session calls
\* session_service.get_session(...)
AArrive(t) ==
  /\ host = "adk" /\ areq[t].pc = "a_idle" /\ nreq < MaxRequests
  /\ \A u \in Threads : areq[u].pc = "a_idle" => ThreadOrder[t] <= ThreadOrder[u]
  /\ nreq' = nreq + 1
  /\ \E s \in Senders, i \in ADKInputs :
       LET k == SessionKey(s) IN
         areq' = [areq EXCEPT ![t] =
                    [IdleThread EXCEPT !.pc = IF store[k].exists
                                              THEN "a_store" ELSE "a_create",
                                       !.n = nreq + 1, !.sender = s, !.in = i,
                                       !.readable = store[k].by]]
  /\ UNCHANGED <<hostVars, aliased, store>>

\* session_service.create_session(...): `if not session`.  For an id that is
\* stored by now the library either stores the new session in place of the old
\* one or raises; the fallback create_session of the except clause then raises
\* too, and the webhook's except clause answers
ACreateSession(t) ==
  /\ areq[t].pc = "a_create"
  /\ LET k == SessionKey(areq[t].sender) IN
       \/ /\ store' = [store EXCEPT ![k] = FreshSession(Writer(t))]
          /\ areq' = [areq EXCEPT ![t].pc = "a_store"]
       \/ /\ store[k].exists
          /\ areq' = [areq EXCEPT ![t].pc = "a_responded", ![t].caught = TRUE,
                                  ![t].reply = ApologyText]
          /\ UNCHANGED store
  /\ UNCHANGED <<hostVars, aliased, nreq>>

\* session.state[...] = ... by the webhook of thread t: into the stored
\* session when the library hands it out, into the thread's copy otherwise
WriteState(t, c, ty) ==
  LET k == SessionKey(areq[t].sender) IN
    IF aliased
    THEN /\ store' = [store EXCEPT ![k].input_content = c, ![k].input_type = ty,
                                   ![k].by = @ \cup {Writer(t)}]
         /\ areq' = [areq EXCEPT ![t].pc = "a_run", ![t].content = c]
    ELSE /\ store' = store
         /\ areq' = [areq EXCEPT ![t].pc = "a_run", ![t].content = c]

\* the classification of the request: the media download and the audio
\* content, the text content, or the default message
AStore(t) ==
  /\ areq[t].pc = "a_store"
  /\ LET r == areq[t] IN
       IF r.in.url # None /\ r.in.type # None
       THEN \/ WriteState(t, [n |-> r.n, sender |-> r.sender, type |-> "audio"], "audio")
            \/ /\ areq' = [areq EXCEPT ![t].pc = "a_responded", ![t].caught = TRUE,
                                       ![t].reply = ApologyText]
               /\ UNCHANGED store
       ELSE IF r.in.body # ""
            THEN WriteState(t, [n |-> r.n, sender |-> r.sender, type |-> "text"], "text")
            ELSE /\ areq' = [areq EXCEPT ![t].pc = "a_responded",
                                         ![t].reply = GreetingText]
                 /\ UNCHANGED store
  /\ UNCHANGED <<hostVars, aliased, nreq>>

\* runner.run_async(...): MultimodalADKAgent._run_async_impl reads the content
\* from the session state (Method 1) or, when it holds none, from the
\* invocation context (Method 2); _process_input_with_master_prompt calls the
\* model and writes the session state; then the truncation,
\* twilio_response.message(result) and the return
ARunAgent(t) ==
  /\ areq[t].pc = "a_run"
  /\ LET k    == SessionKey(areq[t].sender)
         held == store[k].input_content
         c    == IF held # NoContent THEN held ELSE areq[t].content
         Done(r, subs) ==
           [areq EXCEPT ![t].pc = "a_responded", ![t].seen = c,
                        ![t].result = r, ![t].reply = Truncate(r),
                        ![t].invoked = subs,
                        ![t].content = NoContent,
                        ![t].in = IdleThread.in]
     IN \/ \E m \in ModelResponses :
             /\ areq' = Done(FinalResponse(ModelText(m.len), m.words),
                             SubAgentsRun(m.words))
             /\ store' = IF aliased
                         THEN [store EXCEPT ![k].input_type = c.type,
                                            ![k].response = Stored(ModelText(m.len)),
                                            ![k].complete = TRUE,
                                            ![k].by = @ \cup {Writer(t)}]
                         ELSE store
        \/ \E e \in ADKExcTexts :
             /\ areq' = Done(ErrorText(e), {})
             /\ store' = IF aliased
                         THEN [store EXCEPT ![k].input_type = c.type,
                                            ![k].by = @ \cup {Writer(t)}]
                         ELSE store
  /\ UNCHANGED <<hostVars, aliased, nreq>>

\* the locals of the request go out of scope; session_service stays
AReturn(t) ==
  /\ areq[t].pc = "a_responded"
  /\ areq' = [areq EXCEPT ![t] = IdleThread]
  /\ UNCHANGED <<hostVars, aliased, store, nreq>>

ADKNext ==
  \E t \in Threads :
    \/ AArrive(t) \/ ACreateSession(t) \/ AStore(t)
    \/ ARunAgent(t) \/ AReturn(t)

Next ==
  \/ Receive \/ Webhook \/ Send \/ Respond \/ Return
  \/ WAGetPlan \/ ImageDownload
  \/ WAVoiceDownload \/ WAVoiceConvert \/ WAVoiceCleanup
  \/ WAExec \/ WAVerdict
  \/ CLIGetPlan \/ CLIExec \/ CLIVerdict
  \/ AGAnalyze \/ AGCompare
  \/ ADKNext

Spec == Init /\ [][Next]_vars
C2_ApologyWhenCaught ==
  /\ (host \in {"whatsapp", "agent"} /\ responded /\ caught # {}) =>
       \E i \in 1..Len(outbox) :
         outbox[i].kind \in ErrorLocs /\ outbox[i].to = WithPrefix(phone)
  /\ host = "adk" =>
       \A t \in Threads :
         (areq[t].pc = "a_responded" /\ areq[t].caught) => areq[t].reply = ApologyText

\* C3: no message handed to Twilio and no reply of the ADK webhook carries the
\* text of an exception, so that two failing runs that differ only in that text
\* deliver the same messages.
C3_NoExceptionText ==
  /\ \A i \in 1..Len(outbox) : outbox[i].detail = None
  /\ \A t \in Threads : areq[t].reply.exc = None

(***************************************************************************)
(* Properties of the dispatch and of the assessment pipeline               *)
(***************************************************************************)
\* C4: for every request that whatsapp_app.py's handle_twilio_webhook has
\* answered, exactly one of the four actions was taken: the image handler iff
\* media is present and the type starts with image/, the voice handler iff
\* media is present and the type starts with audio/, the unsupported-media
\* notice (one message) iff media is present with another type, the text
\* handler iff no media is present.
C4_ExactlyOneAction ==
  (host = "whatsapp" /\ responded) =>
    LET media == ParseInt(req.NumMedia).val > 0 /\ req.MediaUrl0 # ""
        image == StartsWith(req.MediaContentType0, "image/")
        audio == StartsWith(req.MediaContentType0, "audio/")
    IN /\ handler \in {"image", "voice", "unsupported", "text"}
       /\ handler = "image" <=> (media /\ image)
       /\ handler = "voice" <=> (media /\ ~image /\ audio)
       /\ handler = "unsupported" <=> (media /\ ~image /\ ~audio)
       /\ handler = "text" <=> ~media
       /\ handler = "unsupported" =>
            Len(outbox) = 1 /\ outbox[1].kind = "unsup_send"

\* C5: in run_full_assessment and in the WhatsApp handlers, get_plan has
\* returned before any sub-agent is executed; the sub-agents are executed one
\* per instruction in plan order, each result collected before the next
\* starts; get_final_verdict is called only after all of them and receives
\* exactly the collected results, in plan order.
C5_PlanDelegateCollectVerdict ==
  host \in {"whatsapp", "cli"} =>
    LET plans    == { i \in 1..Len(calls) : calls[i].op = "get_plan" }
        execs    == { i \in 1..Len(calls) : calls[i].op = "exec" }
        verdicts == { i \in 1..Len(calls) : calls[i].op = "verdict" }
        image    == IF host = "cli" THEN req.image ELSE None
    IN /\ \A i \in execs : plan # <<>> /\ \E j \in plans : j < i
       /\ { calls[i].i : i \in execs } = 1..Cardinality(execs)
       /\ \A i, j \in execs : i < j => calls[i].i < calls[j].i
       /\ Len(results) = Cardinality(execs)
       /\ \A j \in 1..Len(results) :
            /\ results[j].agent_name = plan[j].agent_name
            /\ results[j].result = ExecuteSubAgent(plan[j], image)
       /\ \A i \in verdicts :
            /\ \A j \in execs : j < i
            /\ Cardinality(execs) = Len(plan)
            /\ verdictArg # <<>>
       /\ verdictArg # <<>> =>
            /\ verdicts # {}
            /\ verdictArg[1].results = results
            /\ Len(results) = Len(plan)

\* a WhatsApp run over a plan of two instructions for different agents, after
\* the verdict
C5_TwoInstructionsJudged ==
  /\ host = "whatsapp"
  /\ pc = "responded"
  /\ Len(plan) = 2
  /\ plan[1].agent_name # plan[2].agent_name
  /\ verdictArg # <<>>

\* C6: within one request get_plan is called at most once, each instruction is
\* executed at most once, get_final_verdict is called at most once and the
\* media download is attempted at most once, whether or not a call failed.
C6_NoRetry ==
  LET Times(op, k) ==
        Cardinality({ i \in 1..Len(calls) : calls[i].op = op /\ calls[i].i = k })
  IN /\ Times("get_plan", 0) <= 1
     /\ Times("verdict", 0) <= 1
     /\ Times("download", 0) <= 1
     /\ \A k \in 1..(MaxInstr + 1) : Times("exec", k) <= 1

\* a run in which get_plan failed has been answered
C6_FailedPlanAnswered ==
  /\ host = "whatsapp"
  /\ pc = "responded"
  /\ "text" \in caught
  /\ \E i \in 1..Len(calls) : calls[i].op = "get_plan"

\* C7, as the specification states it: every answered run that obtained a plan
\* and in which no call failed has called get_final_verdict.
C7_PlanAlwaysJudged ==
  (host \in {"whatsapp", "cli"} /\ responded /\ caught = {}
     /\ \E i \in 1..Len(calls) : calls[i].op = "get_plan") =>
    \E i \in 1..Len(calls) : calls[i].op = "verdict"

\* C7, amended: every answered run in which no call failed and whose plan
\* holds at least one instruction (in main.py: whose first instruction also
\* names a role) has called get_final_verdict; a plan without instructions
\* ends the run after the plan.
C7_InstructionsJudged ==
  (host \in {"whatsapp", "cli"} /\ responded /\ caught = {}) =>
    /\ (plan # <<>> /\ (host = "cli" => plan[1].role # None)) =>
         \E i \in 1..Len(calls) : calls[i].op = "verdict"
    /\ plan = <<>> => \A i \in 1..Len(calls) : calls[i].op \notin {"exec", "verdict"}

\* a console run over a plan of one instruction, after the verdict
C7_OneInstructionJudged ==
  /\ host = "cli"
  /\ responded
  /\ caught = {}
  /\ Len(plan) = 1
  /\ verdictArg # <<>>

\* C8: once the response of a request is returned the handler is at its end:
\* no download, model call, sub-agent execution or send of the request is
\* still to come; the ADK webhook holds a reply only at its return.
C8_ResponseAfterAllWork ==
  /\ responded => pc = "responded"
  /\ \A t \in Threads : areq[t].reply # NoText => areq[t].pc = "a_responded"

\* a WhatsApp request with downloads, model calls and sends has been answered
C8_LongRunAnswered ==
  /\ host = "whatsapp"
  /\ responded
  /\ Len(calls) >= 4
  /\ Len(outbox) >= 5

\* C9: send_message raises nothing and returns what the Twilio create call
\* yielded (True on success, False on failure), and at every send the handler
\* goes on to the same position after a failed send as after a successful one.
C9_FireAndForget ==
  /\ \A ok \in BOOLEAN :
       LET r == send_message(phone, ok) IN ~r.raised /\ r.ret = ok
  /\ pc \in SendLocs =>
       AfterSend(pc, send_message(phone, TRUE)) = AfterSend(pc, send_message(phone, FALSE))

\* the send before a sub-agent execution failed and the execution is next
C9_FailedSendThenExec ==
  /\ pc = "sub_exec"
  /\ sendRet = FALSE
  /\ outbox # <<>>
  /\ outbox[Len(outbox)].kind = "sub_send_agent"

\* C10: the reply of the ADK webhook is at most 1600 characters long; a result
\* of at most 1600 characters is the reply, a longer one is replaced by its
\* first 1597 characters followed by "...".
C10_ReplyWithinLimit ==
  \A t \in Threads :
    areq[t].pc = "a_responded" =>
      /\ TextLen(areq[t].reply) <= 1600
      /\ (areq[t].result # NoText /\ TextLen(areq[t].result) <= 1600) =>
           areq[t].reply = areq[t].result
      /\ TextLen(areq[t].result) > 1600 =>
           areq[t].reply = [areq[t].result EXCEPT !.take = 1597, !.dots = TRUE]

\* a result of 1601 characters has been cut to 1597 characters and "..."
C10_LongResultCut ==
  \E t \in Threads :
    /\ areq[t].pc = "a_responded"
    /\ TextLen(areq[t].result) = 1601
    /\ areq[t].reply.dots
    /\ areq[t].reply.take = 1597
    /\ TextLen(areq[t].reply) = 1600

(***************************************************************************)
(* Properties of the sub-agent execution                                   *)
(***************************************************************************)
\* C11: when whatsapp_app.py handles an image message, every sub-agent that is
\* executed is handed the bytes downloaded from the message, and the default
\* test image is handed over only for a request that carried no image.
C11_UserImageToSubAgent ==
  host = "whatsapp" =>
    \A i \in 1..Len(calls) :
      (calls[i].op = "exec" /\ calls[i].arg # NoBytes) =>
        /\ handler = "image" =>
             calls[i].arg = [src |-> "image_data", bytes |-> req.image]
        /\ calls[i].arg.src = "test_stitch.jpg" => handler # "image"

(***************************************************************************)
(* Properties of the ADK webhook's classification                          *)
(***************************************************************************)
\* C12: in the ADK webhook a request is stored with input_type "audio" only
\* when its media content type is an audio type; a request with a non-empty
\* body and no media is stored with input_type "text"; every other request is
\* answered with the default greeting.
C12_AudioOnlyForAudio ==
  host = "adk" =>
    \A t \in Threads :
      LET r     == areq[t]
          audio == r.in.url # None /\ r.in.type \in AudioTypes
          text  == r.in.url = None /\ r.in.body # ""
      IN /\ r.pc = "a_run" =>
              /\ r.content.type = "audio" <=> audio
              /\ r.content.type = "text" <=> (~audio /\ text)
         /\ (r.pc = "a_responded" /\ r.in # IdleThread.in /\ ~r.caught) =>
              (r.reply = GreetingText /\ ~audio /\ ~text)

(***************************************************************************)
(* Properties of MultimodalADKAgent                                        *)
(***************************************************************************)
\* C13: whenever _should_delegate_to_stitching_agent is true of the model's
\* response (the final response then carries the request for an image), the
\* stitching_assessor sub-agent has been run during that agent run.
C13_DelegatesWhenNeeded ==
  host = "adk" =>
    \A t \in Threads :
      (areq[t].pc = "a_responded" /\ areq[t].result.src = "model+hint") =>
        "stitching_assessor" \in areq[t].invoked

(***************************************************************************)
(* Properties of the temporary audio files                                 *)
(***************************************************************************)
\* C14: when handle_voice_message has returned, after success or after any
\* failure, no temporary file created for the message (.ogg, .wav) is left on
\* disk.
C14_TempFilesDeleted ==
  (host = "whatsapp" /\ handler = "voice" /\ pc \in {"respond", "responded"}) =>
    files = {}

(***************************************************************************)
(* Properties of agent.py's report                                         *)
(***************************************************************************)
\* C15: every assessment report that agent.py sends shows a quality rating
\* between 1 and 10, whether the analysis came from the model's JSON, from the
\* fallback parser or from the failure default.
C15_RatingInRange ==
  host = "agent" =>
    \A i \in 1..Len(outbox) :
      outbox[i].kind = "ag_send_report" => outbox[i].rating[1] \in 1..10

\* C16: for every rating that a report is sent for, the band emoji chosen by
\* send_assessment_report (range lookup) is the band emoji that the threshold
\* chain of _send_detailed_assessment chooses for that rating.
C16_SameBandEmoji ==
  host = "agent" =>
    \A i \in 1..Len(outbox) :
      (outbox[i].kind = "ag_send_report" /\ analysis.numeric) =>
        /\ outbox[i].emoji = EmojiByRange(outbox[i].rating[1])
        /\ outbox[i].emoji = EmojiByThreshold(outbox[i].rating[1])

\* C17: in agent.py's handle_twilio_image_message the acknowledgement is sent
\* before the download is attempted; after a download whose status is not 200
\* exactly one download-failure message is sent, the model is not called and
\* no report is sent; after a download and an analysis that succeeded exactly
\* three messages have been sent: acknowledgement, report, encouragement.
C17_ImageMessageOrder ==
  (host = "agent" /\ handler = "ag_image") =>
    LET kinds    == [i \in 1..Len(outbox) |-> outbox[i].kind]
        Sent(k)  == { i \in 1..Len(outbox) : outbox[i].kind = k }
        Called(o) == \E i \in 1..Len(calls) : calls[i].op = o
    IN /\ Called("download") => (outbox # <<>> /\ kinds[1] = "ag_send_ack")
       /\ Sent("ag_send_dlfail") # {} =>
            /\ Cardinality(Sent("ag_send_dlfail")) = 1
            /\ ~Called("analyze")
            /\ Sent("ag_send_report") = {}
       /\ (pc = "responded" /\ Called("analyze") /\ analysis.keys) =>
            kinds = <<"ag_send_ack", "ag_send_report", "ag_send_encourage">>

\* C18: agent.py's handle_text_message sends exactly one message for a text:
\* the welcome message iff the lower-cased text contains "hi", "hello",
\* "start" or "help" as a substring, otherwise the request for a photo; it
\* calls neither the model nor anything else downstream.
C18_OneReplyToText ==
  (host = "agent" /\ handler = "ag_text" /\ pc \in {"respond", "responded"}) =>
    /\ Len(outbox) = 1
    /\ outbox[1].kind =
         IF \E g \in Greetings : IsSubstring(g, Lower(req.Body))
         THEN "ag_welcome" ELSE "ag_photo_request"
    /\ outbox[1].to = WithPrefix(StripPrefix(req.From))
    /\ calls = <<>>

\* the text "this", which holds "hi" inside a word, has been answered with the
\* welcome message
C18_SubstringWelcomed ==
  /\ host = "agent"
  /\ pc = "responded"
  /\ handler = "ag_text"
  /\ req.Body = <<"t", "h", "i", "s">>
  /\ Len(outbox) = 1
  /\ outbox[1].kind = "ag_welcome"

\* what is stated of execute, on each image data and task context
ExecuteResultsAsStated ==
  \A b \in ImageData, c \in TaskContexts :
    LET r == ExecuteResults[b, c] IN
      /\ r.status \in {"success", "error"}
      /\ r.status = "success" => (r.data # NoData /\ r.message = None)
      /\ r.status = "error" => (r.data = NoData /\ r.message # None)
      /\ (c.image_path = None /\ b \in {None, "empty", "invalid"}) =>
           r.status = "error"
      /\ r.status = "success" =>
           (r.data.pass_fail_raw = "Pass" <=> c.role \in {"Tailor", Absent})

\* C19: StitchingAssessorAgent.execute never raises: every result, on every
\* image data and task context and in every run, has status "success" with
\* data and no message, or status "error" with a message and no data; with no
\* image_path, data that is missing, empty or not an image gives an error;
\* and a success result has pass_fail_raw "Pass" exactly when the role is
\* "Tailor" or absent.
C19_ExecuteNeverRaises ==
  /\ ExecuteResultsAsStated
  /\ \A i \in 1..Len(results) :
       LET r   == results[i].result
           arg == SubAgentInput(plan[i], IF host = "cli" THEN req.image ELSE None)
       IN /\ r.status \in {"success", "error"}
          /\ r.status = "success" =>
               /\ r.data # NoData /\ r.message = None
               /\ r.data.pass_fail_raw = "Pass" <=> plan[i].role \in {"Tailor", None}
          /\ r.status = "error" => (r.data = NoData /\ r.message # None)
          /\ (plan[i].image_path = None /\ arg # NoBytes /\ arg.bytes # "valid") =>
               (r.status = "error" /\ r.message = "Invalid image")

\* a command-line run on bytes that are no image has collected an error for
\* them and an assessment made from the image file of the task context
C19_ErrorAndSuccessCollected ==
  /\ host = "cli" /\ req.image = "invalid"
  /\ \E i, j \in 1..Len(results) :
       /\ results[i].result = [status |-> "error", message |-> "Invalid image",
                               data |-> NoData]
       /\ results[j].result.status = "success"
       /\ results[j].result.data.pass_fail_raw = "Pass"

\* C20, as the specification states it: every answered run in which no call
\* failed and which collected the error result of an unknown agent or of a
\* missing default image has called get_final_verdict.
C20_ErrorRunAlwaysJudged ==
  ( /\ host \in {"whatsapp", "cli"} /\ responded /\ caught = {}
    /\ \E i \in 1..Len(results) :
         /\ results[i].result.status = "error"
         /\ results[i].result.message \in {"Sub-agent not found.", "Image file not found"} ) =>
    \E i \in 1..Len(calls) : calls[i].op = "verdict"

\* C20, amended: an instruction for an agent that is not in the library gives
\* the result {status "error", message "Sub-agent not found."} and no
\* sub-agent is executed for it; an instruction for a known agent, with no
\* image data and no default test image, gives a result of status "error";
\* each such result is collected, and every answered run in which no call
\* failed (in main.py: whose first instruction also names a role) has passed
\* the collected results, error results included, to get_final_verdict.
C20_ErrorResultsJudged ==
  host \in {"whatsapp", "cli"} =>
    LET image == IF host = "cli" THEN req.image ELSE None
        Exec(i) == { k \in 1..Len(calls) : calls[k].op = "exec" /\ calls[k].i = i }
    IN /\ \A i \in 1..Len(results) :
            /\ plan[i].agent_name # "StitchingAssessorAgent" =>
                 /\ results[i].result.status = "error"
                 /\ results[i].result.message = "Sub-agent not found."
                 /\ results[i].result.data = NoData
                 /\ \A k \in Exec(i) : calls[k].arg = NoBytes
            /\ ( /\ plan[i].agent_name = "StitchingAssessorAgent"
                 /\ image \in {None, "empty"} /\ fileOk = "missing" ) =>
                 /\ results[i].result.status = "error"
                 /\ results[i].result.message = "Image file not found"
                 /\ \A k \in Exec(i) : calls[k].arg = NoBytes
       /\ ( /\ responded /\ caught = {} /\ plan # <<>>
            /\ host = "cli" => plan[1].role # None ) =>
            /\ \E k \in 1..Len(calls) : calls[k].op = "verdict"
            /\ verdictArg # <<>>
            /\ verdictArg[1].results = results
            /\ Len(results) = Len(plan)

\* a command-line run without the default test image has passed the error
\* results of an unknown agent and of the missing image to the verdict
C20_BothErrorsJudged ==
  /\ host = "cli" /\ responded /\ caught = {}
  /\ verdictArg # <<>>
  /\ \E i, j \in 1..Len(verdictArg[1].results) :
       /\ verdictArg[1].results[i].result.message = "Sub-agent not found."
       /\ verdictArg[1].results[j].result.message = "Image file not found"

\* C21: in whatsapp_app.py the Final Assessment message, the detailed analysis
\* and the Final Result message are each sent at most once and in this order,
\* one directly after the other; the detailed analysis is sent exactly when
\* the first collected result carries data, and shows that result's rating;
\* the Final Result message is the last message of the run; its emoji is the
\* check mark iff the decision is "PASS", the cross iff it is "FAIL" and the
\* hourglass otherwise, a missing decision being shown as "UNKNOWN"; and a run
\* that got its verdict without any failure sends both the Final Assessment
\* and the Final Result.
C21_ResultMessagesInOrder ==
  host = "whatsapp" =>
    LET Sent(k) == { i \in 1..Len(outbox) : outbox[i].kind = k }
        F == Sent("res_send_final")
        D == Sent("res_send_detail")
        R == Sent("res_send_result")
    IN /\ Cardinality(F) <= 1 /\ Cardinality(D) <= 1 /\ Cardinality(R) <= 1
       /\ \A d \in D :
            /\ d - 1 \in F
            /\ results # <<>> /\ results[1].result.data # NoData
            /\ outbox[d].rating = <<results[1].result.data.quality_rating>>
       /\ \A r \in R :
            /\ r = Len(outbox)
            /\ r - 1 \in F \cup D
            /\ D # {} <=> (results # <<>> /\ results[1].result.data # NoData)
            /\ outbox[r].detail = (IF verdict \in {"PASS", "FAIL", "REVIEW"}
                                   THEN verdict ELSE "UNKNOWN")
            /\ outbox[r].emoji = "check" <=> outbox[r].detail = "PASS"
            /\ outbox[r].emoji = "cross" <=> outbox[r].detail = "FAIL"
            /\ outbox[r].emoji = "hourglass" <=> outbox[r].detail \notin {"PASS", "FAIL"}
       /\ (responded /\ caught = {} /\ verdictArg # <<>>) => (F # {} /\ R # {})

\* an answered WhatsApp run whose last three messages are the Final
\* Assessment, the detailed analysis and a Final Result of decision "FAIL"
C21_FailResultSentLast ==
  /\ host = "whatsapp" /\ responded /\ caught = {}
  /\ Len(outbox) >= 3
  /\ outbox[Len(outbox) - 2].kind = "res_send_final"
  /\ outbox[Len(outbox) - 1].kind = "res_send_detail"
  /\ outbox[Len(outbox)].kind = "res_send_result"
  /\ outbox[Len(outbox)].detail = "FAIL"
  /\ outbox[Len(outbox)].emoji = "cross"

\* C22: what analyze_stitching hands back: the default result, with
\* quality_rating 5 and pass_fail "fail", when the image decoding or the
\* model call failed; and for a response that is no JSON the fallback result,
\* whose rating is the first number that follows the word "rating" (5 when
\* there is none) and whose pass_fail is "pass" iff that rating is at least 7.
C22_FallbackRatingAfterWord ==
  (host = "agent" /\ analysis # NoAnalysis) =>
    LET text   == analysis.text
        Words  == { i \in 1..Len(text) : text[i] = "rating" }
        first  == CHOOSE i \in Words : \A j \in Words : i <= j
        After  == { j \in 1..Len(text) : j > first /\ text[j] \in {"7", "15"} }
        number == CHOOSE j \in After : \A k \in After : j <= k
        stated == IF Words = {} \/ After = {} THEN 5
                  ELSE IF text[number] = "7" THEN 7 ELSE 15
    IN /\ analysis.cause \in {"decode-error", "model-error"} =>
            /\ analysis.path = "default"
            /\ analysis.rating = 5 /\ analysis.pass_fail = "fail"
       /\ analysis.cause = "no-json" =>
            /\ analysis.path = "fallback"
            /\ analysis.rating = stated
            /\ analysis.pass_fail = "pass" <=> stated >= 7

C24_ExistingSessionKept ==
  [][\A k \in SessionKeys :
       store[k].exists =>
         /\ store'[k].exists
         /\ store[k].by \subseteq store'[k].by
         /\ store[k].input_content # NoContent =>
              store'[k].input_content # NoContent]_vars

\* C25: in agent.py, once the assessment report of an image message has been
\* sent, no "Error analyzing your stitching" message is sent for that image.
C25_NoErrorAfterReport ==
  (host = "agent" /\ handler = "ag_image") =>
    \A i, j \in 1..Len(outbox) :
      ~(outbox[i].kind = "ag_send_report" /\ outbox[j].kind = "ag_send_err")

\* C26: every message handed to Twilio while whatsapp_app.py or agent.py
\* handles a webhook request has as recipient the From value of that request
\* in its whatsapp: form: From itself when it carries the prefix, From with the
\* prefix put in front when it lacks it; no message goes to any other number.
C26_RepliesToSenderOnly ==
  host \in {"whatsapp", "agent"} =>
    \A i \in 1..Len(outbox) :
      outbox[i].to = (IF req.From # <<>> /\ req.From[1] = "whatsapp:"
                      THEN req.From
                      ELSE <<"whatsapp:">> \o req.From)

\* a request whose From lacks the prefix has been answered with two messages
\* or more, all to the prefixed number
C26_PrefixAddedBack ==
  /\ host = "whatsapp" /\ responded
  /\ req.From = <<"+1555">>
  /\ Len(outbox) >= 2
  /\ \A i \in 1..Len(outbox) : outbox[i].to = <<"whatsapp:", "+1555">>
=============================================================================
